---- MODULE Spec2Model ----
(***************************************************************************)
(* Sleep-session lifecycle of the DreamWeaver backend: POST /gotobed,      *)
(* POST /gotobed/wakeup and GET /gotobed/active over the SleepData         *)
(* collection.  Requests are handled one at a time (each handler runs to   *)
(* completion before the next starts).  The SleepData documents follow the *)
(* schema whose wake-ups carry finishedSleeping.  The clock has the        *)
(* resolution of Date, one millisecond, and every handler, which awaits    *)
(* the store at least once, takes at least that long.                      *)
(***************************************************************************)
EXTENDS Integers, Sequences, FiniteSets, TLC

(***************************************************************************)
(* Bounds of the exploration.                                              *)
(***************************************************************************)
MaxTime == 5
MaxSessions == 3
MaxWakeUps == 2

\* The largest number of sessions in a store that is given, not built by
\* requests.
MaxStore == 7

(***************************************************************************)
(* JavaScript request-body values.  A value is a record of its type tag t, *)
(* its number n and its string s.  An ISO-8601 date string denoting the    *)
(* instant n (ms since the epoch) is the string "iso" with n set.          *)
(***************************************************************************)
Undef == [t |-> "undefined", n |-> 0, s |-> ""]
Null == [t |-> "null", n |-> 0, s |-> ""]
Num(k) == [t |-> "number", n |-> k, s |-> ""]
Str(x) == [t |-> "string", n |-> 0, s |-> x]
Bool(b) == [t |-> "boolean", n |-> IF b THEN 1 ELSE 0, s |-> ""]
Iso(k) == [t |-> "string", n |-> k, s |-> "iso"]

\* ToBoolean of a body value: undefined, null, 0, "" and false are falsy.
Truthy(v) ==
  CASE v.t = "undefined" -> FALSE
    [] v.t = "null" -> FALSE
    [] v.t = "number" -> v.n # 0
    [] v.t = "string" -> v.s # ""
    [] v.t = "boolean" -> v.n = 1

\* NaN as a time value, and the null Date of a stored field.
NaNTime == -1
NullDate == -2

\* new Date(v).getTime(): a number is its own instant, an ISO string is the
\* instant it denotes, any other string is NaN.
DateTime(v) ==
  CASE v.t = "number" -> v.n
    [] v.t = "string" -> IF v.s = "iso" THEN v.n ELSE NaNTime
    [] v.t = "null" -> 0
    [] v.t = "boolean" -> v.n
    [] v.t = "undefined" -> NaNTime

(***************************************************************************)
(* The store.  Two registered users, each with the default bedroom made at *)
(* sign-up; "b3" is a well-formed id of no bedroom.  Bedroom ids "b1",     *)
(* "b2", "b3" stand for 24-digit hexadecimal strings.                      *)
(***************************************************************************)
Users == {"u1", "u2"}
ObjectIds == {"b1", "b2", "b3"}

\* The accounts with role 'admin'.
Admins == {"root"}

\* How many requests are handled step by step at the same time.
MaxInFlight == 2
Slots == 1..MaxInFlight

\* A slot with no request in it.
Idle == [op |-> "idle", pc |-> "", user |-> "", target |-> "", local |-> <<>>]

VARIABLES
  sessions,   \* the SleepData collection, in insertion order
  bedrooms,   \* the Bedroom collection: records [id, ownerId]
  nextId,     \* the next generated session id
  now,        \* the clock, in ms
  req,        \* the request handled last
  resp,       \* the response sent last
  pre,        \* history: the SleepData collection before the request handled last
  arrivals,   \* history: per session id, the wake-ups built for it, in arrival order
  users,      \* the User collection: the ids of the stored users
  inflight    \* the requests being handled step by step, one per slot

vars == <<sessions, bedrooms, nextId, now, req, resp, pre, arrivals, users, inflight>>

\* /^[0-9a-fA-F]{24}$/
MatchesObjectId(v) == v.s \in ObjectIds

validCuddleBuddies == {"none", "pillow", "stuffed animal", "pet", "person"}

\* 30 * 60 * 1000 ms
ThirtyMinutes == 30 * 60 * 1000

\* .limit(5)
RecentLimit == 5

Last(q) == q[Len(q)]

Max(S) == CHOOSE x \in S : \A y \in S : y <= x

Take(q, k) == SubSeq(q, 1, IF Len(q) < k THEN Len(q) ELSE k)

\* SleepData.find({}) : the query without the filter on the user.
UserIndexes_All(u) == 1..Len(sessions)

\* The positions in sessions of user u's documents.
UserIndexes(u) == {i \in 1..Len(sessions) : sessions[i].user = u}

\* Every ordering of the positions I by createdAt descending (the order of
\* documents with equal createdAt is not specified by the store).
RECURSIVE SortDesc(_)
SortDesc(I) ==
  IF I = {} THEN {<<>>}
  ELSE LET m == Max({sessions[i].createdAt : i \in I})
           top == {i \in I : sessions[i].createdAt = m}
       IN UNION {{<<i>> \o rest : rest \in SortDesc(I \ {i})} : i \in top}

\* Mutant of RecentSessions: the query without its limit.
RecentSessions_NoLimit(u) == SortDesc(UserIndexes(u))

\* SleepData.find({user}).sort({createdAt: -1}).limit(5): the possible results,
\* each a sequence of positions in sessions.
RecentSessions(u) == {Take(q, RecentLimit) : q \in SortDesc(UserIndexes(u))}

\* Mutant of ExistingActiveSession: only a session without wake-ups counts as
\* active (the test of the last wake-up is left out).
RECURSIVE ExistingActiveSession_EmptyOnly(_)
ExistingActiveSession_EmptyOnly(recent) ==
  IF recent = <<>> THEN <<>>
  ELSE IF Len(sessions[recent[1]].wakeUps) = 0 THEN <<recent[1]>>
  ELSE ExistingActiveSession_EmptyOnly(Tail(recent))

\* Mutant of ExistingActiveSession: the newest session counts as active
\* whatever its wake-ups are.
ExistingActiveSession_Newest(recent) ==
  IF recent = <<>> THEN <<>> ELSE <<recent[1]>>

\* The loop of POST / over recentSessions: the first position whose document
\* has no wake-ups or whose last wake-up has finishedSleeping === false, as a
\* sequence of at most one position (the empty sequence is null).
RECURSIVE ExistingActiveSession(_)
ExistingActiveSession(recent) ==
  IF recent = <<>> THEN <<>>
  ELSE LET session == sessions[recent[1]]
       IN IF Len(session.wakeUps) = 0 THEN <<recent[1]>>
          ELSE IF Last(session.wakeUps).finishedSleeping = FALSE THEN <<recent[1]>>
          ELSE ExistingActiveSession(Tail(recent))

\* Mutant of ActiveSleepSession: the newest session is taken whatever its
\* wake-ups are.
ActiveSleepSession_Newest(recent) ==
  IF recent = <<>> THEN <<>> ELSE <<recent[1]>>

\* The loop of POST /wakeup over recentSessions.
RECURSIVE ActiveSleepSession(_)
ActiveSleepSession(recent) ==
  IF recent = <<>> THEN <<>>
  ELSE LET session == sessions[recent[1]]
       IN IF Len(session.wakeUps) = 0 THEN <<recent[1]>>
          ELSE IF Last(session.wakeUps).finishedSleeping = FALSE THEN <<recent[1]>>
          ELSE ActiveSleepSession(Tail(recent))

\* Mutant of ActiveSession: a session whose last wake-up is unfinished counts
\* as active only until that wake-up's back-to-bed time has passed.
RECURSIVE ActiveSession_UntilBackToBed(_)
ActiveSession_UntilBackToBed(recent) ==
  IF recent = <<>> THEN <<>>
  ELSE LET session == sessions[recent[1]]
       IN IF Len(session.wakeUps) = 0 THEN <<recent[1]>>
          ELSE IF /\ Last(session.wakeUps).finishedSleeping = FALSE
                  /\ now <= Last(session.wakeUps).backToBedAt
            THEN <<recent[1]>>
          ELSE ActiveSession_UntilBackToBed(Tail(recent))

\* The loop of GET /active over recentSessions.
RECURSIVE ActiveSession(_)
ActiveSession(recent) ==
  IF recent = <<>> THEN <<>>
  ELSE LET session == sessions[recent[1]]
       IN IF Len(session.wakeUps) = 0 THEN <<recent[1]>>
          ELSE IF Last(session.wakeUps).finishedSleeping = FALSE THEN <<recent[1]>>
          ELSE ActiveSession(Tail(recent))

\* wakeUps.length > 0 ? wakeUps[wakeUps.length - 1] : null, null being <<>>.
LastWakeUp(session) ==
  IF Len(session.wakeUps) > 0 THEN <<Last(session.wakeUps)>> ELSE <<>>

\* Mutant of ConflictPayload: lastWakeUp is the first wake-up, not the last.
ConflictPayload_FirstWakeUp(session) ==
  [id |-> session.id,
   createdAt |-> session.createdAt,
   bedroom |-> session.bedroom,
   user |-> session.user,
   cuddleBuddy |-> session.cuddleBuddy,
   sleepyThoughts |-> session.sleepyThoughts,
   wakeUpCount |-> Len(session.wakeUps),
   lastWakeUp |-> IF Len(session.wakeUps) > 0 THEN <<session.wakeUps[1]>> ELSE <<>>]

\* The activeSession object of the 409 response (populated references are
\* identified by the ids they were populated from).
ConflictPayload(session) ==
  [id |-> session.id,
   createdAt |-> session.createdAt,
   bedroom |-> session.bedroom,
   user |-> session.user,
   cuddleBuddy |-> session.cuddleBuddy,
   sleepyThoughts |-> session.sleepyThoughts,
   wakeUpCount |-> Len(session.wakeUps),
   lastWakeUp |-> LastWakeUp(session)]

\* new SleepData({...}) of POST /
NewSleepSession(u, body) ==
  [id |-> nextId,
   user |-> u,
   bedroom |-> body.bedroom.s,
   cuddleBuddy |-> IF Truthy(body.cuddleBuddy) THEN body.cuddleBuddy.s ELSE "none",
   sleepyThoughts |-> IF Truthy(body.sleepyThoughts) THEN body.sleepyThoughts.s ELSE "",
   wakeUps |-> <<>>,
   createdAt |-> now]

\* A response that leaves the store as it is.
Reply(op, u, body, status, error, data) ==
  /\ req' = [op |-> op, user |-> u, body |-> body]
  /\ resp' = [op |-> op, user |-> u, status |-> status, error |-> error, data |-> data]
  /\ pre' = sessions
  /\ now' = now + 1
  /\ UNCHANGED <<sessions, bedrooms, nextId, arrivals, users, inflight>>

(***************************************************************************)
(* POST /gotobed                                                           *)
(***************************************************************************)
\* The handler, for requests that arrive before maxTime while the store
\* holds fewer than maxSessions sessions.
BeginSessionWithin(u, body, maxTime, maxSessions) ==
  /\ now < maxTime
  /\ IF ~Truthy(body.bedroom)
       THEN Reply("begin", u, body, 400, "BEDROOM_REQUIRED", <<>>)
     ELSE IF body.bedroom.t # "string"
       \* bedroom.match is not a function: TypeError, caught, 500
       THEN Reply("begin", u, body, 500, "SERVER_ERROR", <<>>)
     ELSE IF ~MatchesObjectId(body.bedroom)
       THEN Reply("begin", u, body, 400, "INVALID_BEDROOM_ID", <<>>)
     ELSE IF Truthy(body.cuddleBuddy) /\ body.cuddleBuddy.s \notin validCuddleBuddies
       THEN Reply("begin", u, body, 400, "INVALID_CUDDLE_BUDDY", <<>>)
     ELSE \E recentSessions \in RecentSessions(u) :
       LET existing == ExistingActiveSession(recentSessions)
       IN IF existing # <<>>
            THEN Reply("begin", u, body, 409, "ACTIVE_SESSION_EXISTS",
                       <<ConflictPayload(sessions[existing[1]])>>)
          ELSE /\ Len(sessions) < maxSessions
               /\ sessions' = Append(sessions, NewSleepSession(u, body))
               /\ nextId' = nextId + 1
               /\ arrivals' = Append(arrivals, <<>>)
               /\ req' = [op |-> "begin", user |-> u, body |-> body]
               /\ resp' = [op |-> "begin", user |-> u, status |-> 201, error |-> "",
                           data |-> <<NewSleepSession(u, body)>>]
               /\ pre' = sessions
               /\ now' = now + 1
               /\ UNCHANGED <<bedrooms, users, inflight>>

BeginSession(u, body) == BeginSessionWithin(u, body, MaxTime, MaxSessions)

\* Request bodies of POST /gotobed.
BeginBody(b, c, t) == [bedroom |-> b, cuddleBuddy |-> c, sleepyThoughts |-> t]

BeginBodies ==
  {BeginBody(b, Undef, Undef) :
     b \in {Undef, Num(7), Str("not-an-id"), Str("b1"), Str("b2"), Str("b3")}}
  \cup {BeginBody(Str("b1"), Str("pillow"), Str("tired")),
        BeginBody(Str("b2"), Str("robot"), Undef)}

\* sleepQuality === undefined || sleepQuality === null
MissingSleepQuality(q) == q.t \in {"undefined", "null"}

\* Mutant of BadSleepQuality: the lower limit is 0.
BadSleepQuality_FromZero(q) == q.t # "number" \/ q.n < 0 \/ q.n > 10

\* typeof sleepQuality !== 'number' || sleepQuality < 1 || sleepQuality > 10
BadSleepQuality(q) == q.t # "number" \/ q.n < 1 \/ q.n > 10

\* v && isNaN(new Date(v).getTime())
BadDate(v) == Truthy(v) /\ DateTime(v) = NaNTime

\* The wakeUpEvent object built by POST /wakeup.
\* Mutant of WakeUpEvent: an omitted finishedSleeping takes the schema default
\* (true) instead of Boolean(undefined).
WakeUpEvent_SchemaDefault(body) ==
  [sleepQuality |-> body.sleepQuality.n,
   dreamJournal |-> IF Truthy(body.dreamJournal) THEN body.dreamJournal.s ELSE "",
   awakenAt |-> IF Truthy(body.awakenAt) THEN DateTime(body.awakenAt) ELSE now,
   finishedSleeping |-> body.finishedSleeping # Bool(FALSE),
   backToBedAt |-> IF Truthy(body.backToBedAt) THEN DateTime(body.backToBedAt)
                   ELSE NullDate]

WakeUpEvent(body) ==
  [sleepQuality |-> body.sleepQuality.n,
   dreamJournal |-> IF Truthy(body.dreamJournal) THEN body.dreamJournal.s ELSE "",
   awakenAt |-> IF Truthy(body.awakenAt) THEN DateTime(body.awakenAt) ELSE now,
   finishedSleeping |-> Truthy(body.finishedSleeping),
   backToBedAt |-> IF Truthy(body.backToBedAt) THEN DateTime(body.backToBedAt)
                   ELSE NullDate]

\* Mutant of Inconsistent: the consistency check is left out.
Inconsistent_Never(wakeUpEvent) == FALSE

\* wakeUpEvent.finishedSleeping && wakeUpEvent.backToBedAt
Inconsistent(wakeUpEvent) ==
  wakeUpEvent.finishedSleeping /\ wakeUpEvent.backToBedAt # NullDate

\* Mutant of WithDefaultBackToBed: the default counts from the recording time
\* instead of the wake-up's awakenAt.
WithDefaultBackToBed_FromNow(wakeUpEvent) ==
  IF ~wakeUpEvent.finishedSleeping /\ wakeUpEvent.backToBedAt = NullDate
    THEN [wakeUpEvent EXCEPT !.backToBedAt = now + ThirtyMinutes]
  ELSE wakeUpEvent

\* The default back-to-bed time of a wake-up that does not finish the sleep.
WithDefaultBackToBed(wakeUpEvent) ==
  IF ~wakeUpEvent.finishedSleeping /\ wakeUpEvent.backToBedAt = NullDate
    THEN [wakeUpEvent EXCEPT !.backToBedAt = wakeUpEvent.awakenAt + ThirtyMinutes]
  ELSE wakeUpEvent

\* Mutant of Push: the wake-up is put in front.
Push_Front(wakeUps, wakeUpEvent) == <<wakeUpEvent>> \o wakeUps

\* activeSleepSession.wakeUps.push(wakeUpEvent)
Push(wakeUps, wakeUpEvent) == Append(wakeUps, wakeUpEvent)

(***************************************************************************)
(* POST /gotobed/wakeup                                                    *)
(***************************************************************************)
\* The handler, for requests that arrive before maxTime while the session
\* holds fewer than maxWakeUps wake-ups.
RecordWakeUpWithin(u, body, maxTime, maxWakeUps) ==
  /\ now < maxTime
  /\ IF MissingSleepQuality(body.sleepQuality)
       THEN Reply("wakeup", u, body, 400, "SLEEP_QUALITY_REQUIRED", <<>>)
     ELSE IF BadSleepQuality(body.sleepQuality)
       THEN Reply("wakeup", u, body, 400, "SLEEP_QUALITY_RANGE", <<>>)
     ELSE IF BadDate(body.awakenAt)
       THEN Reply("wakeup", u, body, 400, "INVALID_AWAKEN_AT", <<>>)
     ELSE IF BadDate(body.backToBedAt)
       THEN Reply("wakeup", u, body, 400, "INVALID_BACK_TO_BED_AT", <<>>)
     ELSE \E recentSessions \in RecentSessions(u) :
       LET active == ActiveSleepSession(recentSessions)
       IN IF active = <<>>
            THEN Reply("wakeup", u, body, 404, "NO_ACTIVE_SESSION", <<>>)
          ELSE IF Inconsistent(WakeUpEvent(body))
            THEN Reply("wakeup", u, body, 400, "BACK_TO_BED_WHEN_FINISHED", <<>>)
          ELSE LET i == active[1]
                   wakeUpEvent == WithDefaultBackToBed(WakeUpEvent(body))
                   updated == [sessions[i] EXCEPT !.wakeUps = Push(@, wakeUpEvent)]
               IN /\ Len(sessions[i].wakeUps) < maxWakeUps
                  /\ sessions' = [sessions EXCEPT ![i] = updated]
                  /\ arrivals' = [arrivals EXCEPT ![sessions[i].id] =
                                    Append(@, wakeUpEvent)]
                  /\ req' = [op |-> "wakeup", user |-> u, body |-> body]
                  /\ resp' = [op |-> "wakeup", user |-> u, status |-> 200, error |-> "",
                              data |-> <<[session |-> updated,
                                          wakeUpCount |-> Len(updated.wakeUps),
                                          sessionCompleted |-> wakeUpEvent.finishedSleeping]>>]
                  /\ pre' = sessions
                  /\ now' = now + 1
                  /\ UNCHANGED <<bedrooms, nextId, users, inflight>>

RecordWakeUp(u, body) == RecordWakeUpWithin(u, body, MaxTime, MaxWakeUps)

\* Request bodies of POST /gotobed/wakeup.
WakeUpBody(q, d, a, f, b) ==
  [sleepQuality |-> q, dreamJournal |-> d, awakenAt |-> a,
   finishedSleeping |-> f, backToBedAt |-> b]

WakeUpBodies ==
  {WakeUpBody(q, Undef, Undef, Undef, Undef) :
     q \in {Undef, Null, Str("good"), Num(-1), Num(0), Num(11)}}
  \cup {WakeUpBody(Num(0), Undef, Undef, Bool(TRUE), Iso(3))}
  \cup {WakeUpBody(Num(1), Undef, Undef, f, b) :
          f \in {Undef, Bool(FALSE), Bool(TRUE)},
          b \in {Undef, Str("later"), Num(0), Iso(3)}}
  \cup {WakeUpBody(Num(1), Undef, Str("soon"), Bool(TRUE), Iso(3)),
        WakeUpBody(Num(1), Undef, Iso(2), Bool(FALSE), Undef),
        WakeUpBody(Num(10), Str("flying"), Undef, Bool(TRUE), Undef)}

(***************************************************************************)
(* GET /gotobed/active                                                     *)
(***************************************************************************)
QueryActive(u) ==
  /\ now < MaxTime
  /\ \E recentSessions \in RecentSessions(u) :
       LET active == ActiveSession(recentSessions)
       IN /\ req' = [op |-> "active", user |-> u]
          /\ resp' = IF active # <<>>
                       THEN [op |-> "active", user |-> u, status |-> 200,
                             hasActiveSession |-> TRUE,
                             data |-> <<[id |-> sessions[active[1]].id,
                                         createdAt |-> sessions[active[1]].createdAt,
                                         bedroom |-> sessions[active[1]].bedroom,
                                         cuddleBuddy |-> sessions[active[1]].cuddleBuddy,
                                         sleepyThoughts |-> sessions[active[1]].sleepyThoughts,
                                         wakeUpCount |-> Len(sessions[active[1]].wakeUps),
                                         lastWakeUp |-> LastWakeUp(sessions[active[1]])]>>]
                     ELSE [op |-> "active", user |-> u, status |-> 200,
                           hasActiveSession |-> FALSE, data |-> <<>>]
          /\ pre' = sessions
          /\ now' = now + 1
          /\ UNCHANGED <<sessions, bedrooms, nextId, arrivals, users, inflight>>

Init ==
  /\ sessions = <<>>
  /\ bedrooms = {[id |-> "b1", ownerId |-> "u1"], [id |-> "b2", ownerId |-> "u2"]}
  /\ nextId = 1
  /\ now = 1
  /\ req = [op |-> "none"]
  /\ resp = [op |-> "none"]
  /\ pre = <<>>
  /\ arrivals = <<>>
  /\ users = Users \cup Admins
  /\ inflight = [slot \in Slots |-> Idle]

Next ==
  \/ \E u \in Users, body \in BeginBodies : BeginSession(u, body)
  \/ \E u \in Users, body \in WakeUpBodies : RecordWakeUp(u, body)
  \/ \E u \in Users : QueryActive(u)

Spec == Init /\ [][Next]_vars

(***************************************************************************)
(* /sleep-data: PUT /:id and DELETE /:id behind checkOwnership             *)
(***************************************************************************)
\* A 24-hex-digit string, the id of the session numbered k (stored or not).
SleepDataId(k) == [t |-> "objectid", n |-> k, s |-> ""]

\* The request parameters :id that are tried.
IdParams == {SleepDataId(k) : k \in 1..MaxSessions} \cup {Str("not-an-id")}

\* Each account's password; bcrypt.compare(password, user.hashedPassword) is
\* true exactly for it.
PasswordOf == [u \in Users \cup Admins |-> IF u \in Admins THEN "pw-root" ELSE "pw-user"]

\* SleepData.findById: the positions of the session with this id.
FindById(id) == {i \in 1..Len(sessions) : sessions[i].id = id.n}

\* The sequence without its i-th element.
RemoveAt(seq, i) == SubSeq(seq, 1, i - 1) \o SubSeq(seq, i + 1, Len(seq))

\* Mutant of NotOwner: nobody is turned away.
NotOwner_Never(sleepData, u) == FALSE

\* sleepData.user.toString() !== req.user.id.toString()
NotOwner(sleepData, u) == sleepData.user # u

\* checkOwnership: <<status, error>> of its rejection, <<>> when it calls next().
checkOwnership(u, id) ==
  IF id.t # "objectid" THEN <<400, "INVALID_SLEEP_DATA_ID">>
  ELSE IF FindById(id) = {} THEN <<404, "SLEEP_SESSION_NOT_FOUND">>
  ELSE IF \E i \in FindById(id) : NotOwner(sessions[i], u)
    THEN <<403, "UNAUTHORIZED_ACCESS">>
  ELSE <<>>

\* The value of the wakeUps key of a PUT body: absent, not an array, or an
\* array of wake-up objects.
NoWakeUps == [t |-> "undefined", items |-> <<>>]
NotAnArray == [t |-> "string", items |-> <<>>]
Array(items) == [t |-> "array", items |-> items]

\* The wakeUpSchema cast of one wake-up object, with the schema's defaults.
CastWakeUp(w) ==
  [sleepQuality |-> w.sleepQuality.n,
   dreamJournal |-> IF w.dreamJournal.t = "string" THEN w.dreamJournal.s ELSE "",
   awakenAt |-> IF w.awakenAt # Undef THEN DateTime(w.awakenAt) ELSE now,
   finishedSleeping |-> IF w.finishedSleeping.t = "boolean"
                          THEN Truthy(w.finishedSleeping) ELSE TRUE,
   backToBedAt |-> IF w.backToBedAt # Undef THEN DateTime(w.backToBedAt)
                   ELSE NullDate]

\* The schema's validators of one wake-up object: sleepQuality required, a
\* number, min 1, max 10.
SchemaValidWakeUp(w) == w.sleepQuality.t = "number" /\ w.sleepQuality.n \in 1..10

\* The allowed keys of a PUT body; a key that is not allowed is dropped.
UpdateBody(b, t, w, c, d, u) ==
  [bedroom |-> b, sleepyThoughts |-> t, wakeUps |-> w, cuddleBuddy |-> c,
   createdAt |-> d, user |-> u]

hasValidUpdates(body) ==
  \/ body.bedroom # Undef
  \/ body.sleepyThoughts # Undef
  \/ body.wakeUps # NoWakeUps
  \/ body.cuddleBuddy # Undef
  \/ body.createdAt # Undef

\* Object.assign(req.sleepData, req.body): the body's user is assigned too.
Assign_WithUser(sleepData, body) ==
  [id |-> sleepData.id,
   user |-> IF body.user # Undef THEN body.user.s ELSE sleepData.user,
   bedroom |-> IF body.bedroom # Undef THEN body.bedroom.s ELSE sleepData.bedroom,
   cuddleBuddy |-> IF body.cuddleBuddy # Undef THEN body.cuddleBuddy.s
                   ELSE sleepData.cuddleBuddy,
   sleepyThoughts |-> IF body.sleepyThoughts # Undef THEN body.sleepyThoughts.s
                      ELSE sleepData.sleepyThoughts,
   wakeUps |-> IF body.wakeUps # NoWakeUps
                 THEN [k \in 1..Len(body.wakeUps.items) |->
                         CastWakeUp(body.wakeUps.items[k])]
               ELSE sleepData.wakeUps,
   createdAt |-> IF body.createdAt # Undef THEN DateTime(body.createdAt)
                 ELSE sleepData.createdAt]

\* Object.assign(req.sleepData, filteredUpdates) with createdAt filtered out.
Assign_KeepCreatedAt(sleepData, body) ==
  [id |-> sleepData.id,
   user |-> sleepData.user,
   bedroom |-> IF body.bedroom # Undef THEN body.bedroom.s ELSE sleepData.bedroom,
   cuddleBuddy |-> IF body.cuddleBuddy # Undef THEN body.cuddleBuddy.s
                   ELSE sleepData.cuddleBuddy,
   sleepyThoughts |-> IF body.sleepyThoughts # Undef THEN body.sleepyThoughts.s
                      ELSE sleepData.sleepyThoughts,
   wakeUps |-> IF body.wakeUps # NoWakeUps
                 THEN [k \in 1..Len(body.wakeUps.items) |->
                         CastWakeUp(body.wakeUps.items[k])]
               ELSE sleepData.wakeUps,
   createdAt |-> sleepData.createdAt]

\* Object.assign(req.sleepData, filteredUpdates), cast by the schema.
Assign(sleepData, body) ==
  [id |-> sleepData.id,
   user |-> sleepData.user,
   bedroom |-> IF body.bedroom # Undef THEN body.bedroom.s ELSE sleepData.bedroom,
   cuddleBuddy |-> IF body.cuddleBuddy # Undef THEN body.cuddleBuddy.s
                   ELSE sleepData.cuddleBuddy,
   sleepyThoughts |-> IF body.sleepyThoughts # Undef THEN body.sleepyThoughts.s
                      ELSE sleepData.sleepyThoughts,
   wakeUps |-> IF body.wakeUps # NoWakeUps
                 THEN [k \in 1..Len(body.wakeUps.items) |->
                         CastWakeUp(body.wakeUps.items[k])]
               ELSE sleepData.wakeUps,
   createdAt |-> IF body.createdAt # Undef THEN DateTime(body.createdAt)
                 ELSE sleepData.createdAt]

\* PUT /sleep-data/:id
UpdateSleepData(u, id, body) ==
  LET request == [id |-> id, body |-> body]
      denied == checkOwnership(u, id)
      items == body.wakeUps.items
  IN /\ now < MaxTime
     /\ IF denied # <<>>
          THEN Reply("update", u, request, denied[1], denied[2], <<>>)
        ELSE IF ~hasValidUpdates(body)
          THEN Reply("update", u, request, 400, "NO_VALID_FIELDS", <<>>)
        ELSE IF Truthy(body.bedroom) /\ ~MatchesObjectId(body.bedroom)
          THEN Reply("update", u, request, 400, "INVALID_BEDROOM_ID", <<>>)
        ELSE IF body.wakeUps = NotAnArray
          THEN Reply("update", u, request, 400, "WAKEUPS_NOT_ARRAY", <<>>)
        ELSE IF \E k \in 1..Len(items) :
                  /\ Truthy(items[k].sleepQuality)
                  /\ items[k].sleepQuality.t = "number"
                  /\ (items[k].sleepQuality.n < 1 \/ items[k].sleepQuality.n > 10)
          THEN Reply("update", u, request, 400, "SLEEP_QUALITY_RANGE", <<>>)
        ELSE IF /\ Truthy(body.cuddleBuddy)
                /\ body.cuddleBuddy.s \notin validCuddleBuddies
          THEN Reply("update", u, request, 400, "INVALID_CUDDLE_BUDDY", <<>>)
        ELSE IF Truthy(body.createdAt) /\ DateTime(body.createdAt) = NaNTime
          THEN Reply("update", u, request, 400, "INVALID_CREATED_AT", <<>>)
        ELSE IF \E k \in 1..Len(items) : ~SchemaValidWakeUp(items[k])
          THEN Reply("update", u, request, 400, "VALIDATION_FAILED", <<>>)
        ELSE \E i \in FindById(id) :
               LET updated == Assign(sessions[i], body)
               IN /\ sessions' = [sessions EXCEPT ![i] = updated]
                  /\ req' = [op |-> "update", user |-> u, body |-> request]
                  /\ resp' = [op |-> "update", user |-> u, status |-> 200,
                              error |-> "", data |-> <<updated>>]
                  /\ pre' = sessions
                  /\ now' = now + 1
                  /\ UNCHANGED <<bedrooms, nextId, arrivals, users, inflight>>

\* Request bodies of PUT /sleep-data/:id.
UpdateBodies ==
  {UpdateBody(Undef, Undef, NoWakeUps, Undef, Undef, Undef),
   UpdateBody(Undef, Undef, NoWakeUps, Undef, Undef, Str("u2")),
   UpdateBody(Str("b2"), Str("calm"), NoWakeUps, Str("pet"), Undef, Str("u2")),
   UpdateBody(Str("not-an-id"), Undef, NoWakeUps, Undef, Undef, Undef),
   UpdateBody(Undef, Undef, NoWakeUps, Str("robot"), Undef, Undef),
   UpdateBody(Undef, Undef, NoWakeUps, Undef, Iso(1), Undef),
   UpdateBody(Undef, Undef, NoWakeUps, Undef, Str("someday"), Undef),
   UpdateBody(Undef, Undef, NotAnArray, Undef, Undef, Undef),
   UpdateBody(Undef, Undef, Array(<<>>), Undef, Undef, Undef),
   UpdateBody(Undef, Undef, Array(<<WakeUpBody(Num(11), Undef, Undef, Undef, Undef)>>),
              Undef, Undef, Undef),
   UpdateBody(Undef, Undef, Array(<<WakeUpBody(Num(0), Undef, Undef, Undef, Undef)>>),
              Undef, Undef, Undef),
   UpdateBody(Undef, Undef, Array(<<WakeUpBody(Num(5), Undef, Undef, Undef, Undef)>>),
              Undef, Undef, Undef),
   UpdateBody(Undef, Undef,
              Array(<<WakeUpBody(Num(5), Undef, Iso(2), Bool(FALSE), Undef)>>),
              Undef, Undef, Undef)}

\* DELETE /sleep-data/:id
DeleteSleepData(u, id, body) ==
  LET request == [id |-> id, body |-> body]
      denied == checkOwnership(u, id)
  IN /\ now < MaxTime
     /\ IF denied # <<>>
          THEN Reply("delete", u, request, denied[1], denied[2], <<>>)
        ELSE IF ~Truthy(body.password)
          THEN Reply("delete", u, request, 400, "PASSWORD_REQUIRED", <<>>)
        ELSE IF body.password.t # "string"
          THEN Reply("delete", u, request, 400, "PASSWORD_NOT_STRING", <<>>)
        ELSE IF u \notin users
          THEN Reply("delete", u, request, 404, "USER_NOT_FOUND", <<>>)
        ELSE IF body.password.s # PasswordOf[u]
          THEN Reply("delete", u, request, 401, "INVALID_PASSWORD", <<>>)
        ELSE \E i \in FindById(id) :
               /\ sessions' = RemoveAt(sessions, i)
               /\ req' = [op |-> "delete", user |-> u, body |-> request]
               /\ resp' = [op |-> "delete", user |-> u, status |-> 200, error |-> "",
                           data |-> <<[id |-> sessions[i].id,
                                       createdAt |-> sessions[i].createdAt,
                                       bedroom |-> sessions[i].bedroom,
                                       wakeUpCount |-> Len(sessions[i].wakeUps)]>>]
               /\ pre' = sessions
               /\ now' = now + 1
               /\ UNCHANGED <<bedrooms, nextId, arrivals, users, inflight>>

\* Request bodies of DELETE /sleep-data/:id.
DeleteBodies ==
  {[password |-> p] : p \in {Undef, Num(1234), Str("pw-user"), Str("guess")}}

\* The bodies of POST /gotobed and POST /gotobed/wakeup that fill the store
\* for the /sleep-data requests.
FewBeginBodies == {BeginBody(Str("b1"), Undef, Undef)}
FewWakeUpBodies ==
  {WakeUpBody(Num(1), Undef, Undef, Bool(FALSE), Undef),
   WakeUpBody(Num(10), Str("flying"), Undef, Bool(TRUE), Undef)}

SleepDataNext ==
  \/ \E u \in Users, body \in FewBeginBodies : BeginSession(u, body)
  \/ \E u \in Users, body \in FewWakeUpBodies : RecordWakeUp(u, body)
  \/ \E u \in Users, id \in IdParams, body \in UpdateBodies :
       UpdateSleepData(u, id, body)
  \/ \E u \in Users, id \in IdParams, body \in DeleteBodies :
       DeleteSleepData(u, id, body)

SleepDataSpec == Init /\ [][SleepDataNext]_vars

(***************************************************************************)
(* POST /bedrooms/new                                                      *)
(***************************************************************************)
\* The ids no stored bedroom has.
FreeBedroomIds == ObjectIds \ {b.id : b \in bedrooms}

\* POST /bedrooms/new, with valid levels and a name no bedroom has yet.
CreateBedroom(u, body) ==
  /\ now < MaxTime
  /\ IF ~Truthy(body.bedroomName) \/ body.bedroomName.t # "string"
       THEN Reply("newBedroom", u, body, 400, "BEDROOM_NAME_REQUIRED", <<>>)
     ELSE \E id \in FreeBedroomIds :
            LET savedBedroom == [id |-> id, ownerId |-> u]
            IN /\ bedrooms' = bedrooms \cup {savedBedroom}
               /\ req' = [op |-> "newBedroom", user |-> u, body |-> body]
               /\ resp' = [op |-> "newBedroom", user |-> u, status |-> 201,
                           error |-> "", data |-> <<savedBedroom>>]
               /\ pre' = sessions
               /\ now' = now + 1
               /\ UNCHANGED <<sessions, nextId, arrivals, users, inflight>>

\* Request bodies of POST /bedrooms/new.
BedroomBodies == {[bedroomName |-> n] : n \in {Undef, Str("loft")}}

(***************************************************************************)
(* DELETE /auth/users/:id, one store operation per step                    *)
(***************************************************************************)
\* The role in the caller's token.
Role(u) == IF u \in Admins THEN "admin" ELSE "user"

\* The request parameters :id that are tried.
UserIdParams == {Str(u) : u \in Users \cup Admins} \cup {Str("not-an-id")}

\* The values of the x-admin-password header that are tried.
AdminPasswords == {Undef, Str("pw-root"), Str("guess")}

\* requireAdmin and the handler up to its last check: the request is answered
\* with an error, or goes on to the cascade.
DeleteUserCheck(slot, a, id, adminPassword) ==
  LET request == [id |-> id, adminPassword |-> adminPassword]
  IN /\ now < MaxTime
     /\ inflight[slot] = Idle
     /\ IF Role(a) # "admin"
          THEN Reply("deleteUser", a, request, 403, "ADMIN_REQUIRED", <<>>)
        ELSE IF id.s \notin Users \cup Admins
          THEN Reply("deleteUser", a, request, 400, "INVALID_USER_ID", <<>>)
        ELSE IF ~Truthy(adminPassword)
          THEN Reply("deleteUser", a, request, 400, "ADMIN_PASSWORD_REQUIRED", <<>>)
        ELSE IF a = id.s
          THEN Reply("deleteUser", a, request, 400, "CANNOT_DELETE_SELF", <<>>)
        ELSE IF a \notin users
          THEN Reply("deleteUser", a, request, 403, "ADMIN_AUTH_FAILED", <<>>)
        ELSE IF adminPassword.s # PasswordOf[a]
          THEN Reply("deleteUser", a, request, 403, "INCORRECT_ADMIN_PASSWORD", <<>>)
        ELSE IF id.s \notin users
          THEN Reply("deleteUser", a, request, 404, "USER_NOT_FOUND", <<>>)
        ELSE IF Role(id.s) = "admin"
          THEN Reply("deleteUser", a, request, 403, "CANNOT_DELETE_ADMIN", <<>>)
        ELSE /\ inflight' = [inflight EXCEPT ![slot] =
                               [op |-> "deleteUser", pc |-> "bedrooms", user |-> a,
                                target |-> id.s, local |-> <<>>]]
             /\ UNCHANGED <<sessions, bedrooms, nextId, now, req, resp, pre,
                            arrivals, users>>

\* Bedroom.deleteMany({ ownerId: userId })
DeleteUserBedrooms(slot) ==
  LET r == inflight[slot]
      mine == {b \in bedrooms : b.ownerId = r.target}
  IN /\ r.op = "deleteUser" /\ r.pc = "bedrooms"
     /\ bedrooms' = bedrooms \ mine
     /\ inflight' = [inflight EXCEPT ![slot].pc = "sleepData",
                                     ![slot].local = <<Cardinality(mine)>>]
     /\ UNCHANGED <<sessions, nextId, now, req, resp, pre, arrivals, users>>

\* SleepData.deleteMany({ user: userId })
DeleteUserSleepData(slot) ==
  LET r == inflight[slot]
      kept == SelectSeq(sessions, LAMBDA s : s.user # r.target)
  IN /\ r.op = "deleteUser" /\ r.pc = "sleepData"
     /\ sessions' = kept
     /\ inflight' = [inflight EXCEPT ![slot].pc = "user",
                                     ![slot].local = Append(@, Len(sessions) - Len(kept))]
     /\ UNCHANGED <<bedrooms, nextId, now, req, resp, pre, arrivals, users>>

\* User.findByIdAndDelete(userId) and the response.
DeleteUserFinish(slot) ==
  LET r == inflight[slot]
      request == [id |-> Str(r.target), adminPassword |-> Str(PasswordOf[r.user])]
  IN /\ r.op = "deleteUser" /\ r.pc = "user"
     /\ inflight' = [inflight EXCEPT ![slot] = Idle]
     /\ req' = [op |-> "deleteUser", user |-> r.user, body |-> request]
     /\ pre' = sessions
     /\ IF r.target \notin users
          THEN /\ resp' = [op |-> "deleteUser", user |-> r.user, status |-> 404,
                           error |-> "USER_ALREADY_DELETED", data |-> <<>>]
               /\ UNCHANGED users
        ELSE /\ users' = users \ {r.target}
             /\ resp' = [op |-> "deleteUser", user |-> r.user, status |-> 200,
                         error |-> "",
                         data |-> <<[userId |-> r.target, bedrooms |-> r.local[1],
                                     sleepSessions |-> r.local[2]]>>]
     /\ UNCHANGED <<sessions, bedrooms, nextId, now, arrivals>>

\* One account deletion at a time, among the users' own requests.
CascadeSlots == {1}

CascadeNext ==
  \/ \E u \in Users, body \in FewBeginBodies : BeginSession(u, body)
  \/ \E u \in Users, body \in BedroomBodies : CreateBedroom(u, body)
  \/ \E slot \in CascadeSlots, a \in Users \cup Admins, id \in UserIdParams,
        adminPassword \in AdminPasswords : DeleteUserCheck(slot, a, id, adminPassword)
  \/ \E slot \in CascadeSlots : DeleteUserBedrooms(slot)
  \/ \E slot \in CascadeSlots : DeleteUserSleepData(slot)
  \/ \E slot \in CascadeSlots : DeleteUserFinish(slot)

CascadeSpec == Init /\ [][CascadeNext]_vars

(***************************************************************************)
(* DELETE /bedrooms/:id, one store operation per step                      *)
(***************************************************************************)
\* The request parameters :id that are tried.
BedroomIdParams == {Str(id) : id \in ObjectIds} \cup {Str("not-an-id")}

\* Bedroom.countDocuments({ ownerId: req.user.id })
bedroomCount(u) == Cardinality({b \in bedrooms : b.ownerId = u})

\* The checks of the request, the user and the password, then the count
\* check: the request is answered with an error, or goes on to load the
\* bedroom.
DeleteBedroomCheck(slot, u, id, body) ==
  LET request == [id |-> id, body |-> body]
  IN /\ now < MaxTime
     /\ inflight[slot] = Idle
     /\ IF ~MatchesObjectId(id)
          THEN Reply("deleteBedroom", u, request, 400, "INVALID_BEDROOM_ID", <<>>)
        ELSE IF ~Truthy(body.password)
          THEN Reply("deleteBedroom", u, request, 400, "PASSWORD_REQUIRED", <<>>)
        ELSE IF body.password.t # "string"
          THEN Reply("deleteBedroom", u, request, 400, "PASSWORD_NOT_STRING", <<>>)
        ELSE IF u \notin users
          THEN Reply("deleteBedroom", u, request, 404, "USER_NOT_FOUND", <<>>)
        ELSE IF body.password.s # PasswordOf[u]
          THEN Reply("deleteBedroom", u, request, 401, "INVALID_PASSWORD", <<>>)
        ELSE IF bedroomCount(u) <= 1
          THEN Reply("deleteBedroom", u, request, 400, "LAST_BEDROOM", <<>>)
        ELSE /\ inflight' = [inflight EXCEPT ![slot] =
                               [op |-> "deleteBedroom", pc |-> "find", user |-> u,
                                target |-> id.s, local |-> <<>>]]
             /\ UNCHANGED <<sessions, bedrooms, nextId, now, req, resp, pre,
                            arrivals, users>>

\* The response that ends the request in this slot.
DeleteBedroomReply(slot, status, error) ==
  LET r == inflight[slot]
  IN /\ inflight' = [inflight EXCEPT ![slot] = Idle]
     /\ req' = [op |-> "deleteBedroom", user |-> r.user,
                body |-> [id |-> Str(r.target),
                          body |-> [password |-> Str(PasswordOf[r.user])]]]
     /\ resp' = [op |-> "deleteBedroom", user |-> r.user, status |-> status,
                 error |-> error, data |-> <<>>]
     /\ pre' = sessions
     /\ UNCHANGED <<sessions, nextId, now, arrivals, users>>

\* Bedroom.findById(bedroomId) and the ownership check.
DeleteBedroomFind(slot) ==
  LET r == inflight[slot]
      found == {b \in bedrooms : b.id = r.target}
  IN /\ r.op = "deleteBedroom" /\ r.pc = "find"
     /\ IF found = {}
          THEN DeleteBedroomReply(slot, 404, "BEDROOM_NOT_FOUND") /\ UNCHANGED bedrooms
        ELSE IF \E b \in found : b.ownerId # r.user
          THEN DeleteBedroomReply(slot, 403, "ACCESS_DENIED") /\ UNCHANGED bedrooms
        ELSE /\ inflight' = [inflight EXCEPT ![slot].pc = "delete"]
             /\ UNCHANGED <<sessions, bedrooms, nextId, now, req, resp, pre,
                            arrivals, users>>

\* bedroom.deleteOne() and the response.
DeleteBedroomDelete(slot) ==
  LET r == inflight[slot]
  IN /\ r.op = "deleteBedroom" /\ r.pc = "delete"
     /\ bedrooms' = {b \in bedrooms : b.id # r.target}
     /\ DeleteBedroomReply(slot, 200, "")

\* Request bodies of DELETE /bedrooms/:id.
BedroomDeleteBodies ==
  {[password |-> p] : p \in {Undef, Num(1234), Str("pw-user"), Str("guess")}}

\* The users after sign-up, u1 having added a second bedroom.
BedroomInit ==
  /\ sessions = <<>>
  /\ bedrooms = {[id |-> "b1", ownerId |-> "u1"], [id |-> "b2", ownerId |-> "u2"],
                 [id |-> "b3", ownerId |-> "u1"]}
  /\ nextId = 1
  /\ now = 1
  /\ req = [op |-> "none"]
  /\ resp = [op |-> "none"]
  /\ pre = <<>>
  /\ arrivals = <<>>
  /\ users = Users \cup Admins
  /\ inflight = [slot \in Slots |-> Idle]

BedroomNext ==
  \/ \E slot \in Slots, u \in Users, id \in BedroomIdParams,
        body \in BedroomDeleteBodies : DeleteBedroomCheck(slot, u, id, body)
  \/ \E slot \in Slots : DeleteBedroomFind(slot)
  \/ \E slot \in Slots : DeleteBedroomDelete(slot)

BedroomSpec == BedroomInit /\ [][BedroomNext]_vars

(***************************************************************************)
(* The resolver on any store contents: the stores are given, and one       *)
(* request is handled on each.                                             *)
(***************************************************************************)
\* A stored wake-up that closes the session (finished) or leaves it open.
StoredWakeUp(finished) ==
  [sleepQuality |-> 5, dreamJournal |-> "", awakenAt |-> 0,
   finishedSleeping |-> finished,
   backToBedAt |-> IF finished THEN NullDate ELSE ThirtyMinutes]

\* How many of the given sessions are open.
MaxOpen == 2

\* The wakeUps of the given sessions that are open: none, or closed before it
\* was reopened.
OpenWakeUps == {<<>>, <<StoredWakeUp(TRUE), StoredWakeUp(FALSE)>>}

\* The wakeUps of the i-th given session when it is closed: one finished
\* wake-up, or an unfinished one before the finished one.
ClosedWakeUps(i) ==
  IF i % 2 = 1 THEN <<StoredWakeUp(TRUE)>>
  ELSE <<StoredWakeUp(FALSE), StoredWakeUp(TRUE)>>

\* The wakeUps of the n given sessions, at most MaxOpen of them open.
WakeUpPatterns(n) ==
  UNION {{[i \in 1..n |-> IF i \in open THEN wakeUps[i] ELSE ClosedWakeUps(i)] :
            wakeUps \in [open -> OpenWakeUps]} :
           open \in {S \in SUBSET (1..n) : Cardinality(S) <= MaxOpen}}

\* The createdAt of the n given sessions: in insertion order, in the reverse
\* order, or equal in pairs.
CreatedAtPatterns(n) ==
  {[i \in 1..n |-> i], [i \in 1..n |-> n + 1 - i], [i \in 1..n |-> (i + 1) \div 2]}

\* The owners of the n given sessions: all of u1, but for the first or the
\* last, which may be of u2.
OwnerPatterns(n) ==
  {[i \in 1..n |-> IF i = j THEN "u2" ELSE "u1"] : j \in {0, 1, n}}

\* The given stores.
Stores ==
  UNION {{[i \in 1..n |->
             [id |-> i, user |-> owner[i], bedroom |-> "b1", cuddleBuddy |-> "none",
              sleepyThoughts |-> "", wakeUps |-> wakeUps[i],
              createdAt |-> createdAt[i]]] :
            owner \in OwnerPatterns(n), createdAt \in CreatedAtPatterns(n),
            wakeUps \in WakeUpPatterns(n)} : n \in 0..MaxStore}

ResolverInit ==
  /\ sessions \in Stores
  /\ bedrooms = {[id |-> "b1", ownerId |-> "u1"], [id |-> "b2", ownerId |-> "u2"]}
  /\ nextId = Len(sessions) + 1
  /\ now = MaxTime - 1
  /\ req = [op |-> "none"]
  /\ resp = [op |-> "none"]
  /\ pre = sessions
  /\ arrivals = [i \in 1..Len(sessions) |-> sessions[i].wakeUps]
  /\ users = Users \cup Admins
  /\ inflight = [slot \in Slots |-> Idle]

ResolverNext ==
  \/ \E u \in Users, body \in FewBeginBodies : BeginSession(u, body)
  \/ \E u \in Users, body \in FewWakeUpBodies : RecordWakeUp(u, body)
  \/ \E u \in Users : QueryActive(u)

ResolverSpec == ResolverInit /\ [][ResolverNext]_vars

(***************************************************************************)
(* Long histories: requests handled one at a time after a user's first     *)
(* nights, each begun and then finished by one wake-up.                    *)
(***************************************************************************)
\* The nights u1 has already spent, and the requests handled after them.
PastNights == 4
HistorySteps == 6

\* The session of u1's i-th night: begun at 2i - 1, finished at 2i.
PastNight(i) ==
  [id |-> i, user |-> "u1", bedroom |-> "b1", cuddleBuddy |-> "none",
   sleepyThoughts |-> "",
   wakeUps |-> <<[sleepQuality |-> 10, dreamJournal |-> "flying",
                  awakenAt |-> 2 * i, finishedSleeping |-> TRUE,
                  backToBedAt |-> NullDate]>>,
   createdAt |-> 2 * i - 1]

HistoryInit ==
  /\ sessions = [i \in 1..PastNights |-> PastNight(i)]
  /\ bedrooms = {[id |-> "b1", ownerId |-> "u1"], [id |-> "b2", ownerId |-> "u2"]}
  /\ nextId = PastNights + 1
  /\ now = 2 * PastNights + 1
  /\ req = [op |-> "none"]
  /\ resp = [op |-> "none"]
  /\ pre = sessions
  /\ arrivals = [i \in 1..PastNights |-> PastNight(i).wakeUps]
  /\ users = Users \cup Admins
  /\ inflight = [slot \in Slots |-> Idle]

\* The time and the number of sessions at which the history ends.
HistoryEnd == 2 * PastNights + 1 + HistorySteps
HistorySessions == PastNights + HistorySteps

HistoryNext ==
  \/ \E u \in Users, body \in FewBeginBodies :
       BeginSessionWithin(u, body, HistoryEnd, HistorySessions)
  \/ \E u \in Users, body \in FewWakeUpBodies :
       RecordWakeUpWithin(u, body, HistoryEnd, MaxWakeUps)

HistorySpec == HistoryInit /\ [][HistoryNext]_vars

(***************************************************************************)
(* POST /gotobed and POST /gotobed/wakeup, one store operation per step:   *)
(* the find of the resolver, then the save.                                *)
(***************************************************************************)
\* Mutant of CreateConflict: the insert fails when its user has an active
\* session (as a unique index on active sessions would make it).
CreateConflict_UniqueActive(u) ==
  \E i \in 1..Len(sessions) :
    /\ sessions[i].user = u
    /\ (Len(sessions[i].wakeUps) = 0 \/ ~Last(sessions[i].wakeUps).finishedSleeping)

\* Whether the insert of a new session of user u is refused by the store: the
\* schema has no unique index, so never.
CreateConflict(u) == FALSE

\* The request leaves its slot with this response.
Respond(slot, op, body, status, error, data) ==
  /\ inflight' = [inflight EXCEPT ![slot] = Idle]
  /\ req' = [op |-> op, user |-> inflight[slot].user, body |-> body]
  /\ resp' = [op |-> op, user |-> inflight[slot].user, status |-> status,
              error |-> error, data |-> data]
  /\ pre' = sessions
  /\ now' = now + 1

\* POST /gotobed up to the result of its find: an error, the conflict, or on
\* to the save.
BeginResolve(slot, u, body) ==
  /\ now < MaxTime
  /\ inflight[slot].op = "idle"
  /\ IF ~Truthy(body.bedroom)
       THEN Reply("begin", u, body, 400, "BEDROOM_REQUIRED", <<>>)
     ELSE IF body.bedroom.t # "string"
       THEN Reply("begin", u, body, 500, "SERVER_ERROR", <<>>)
     ELSE IF ~MatchesObjectId(body.bedroom)
       THEN Reply("begin", u, body, 400, "INVALID_BEDROOM_ID", <<>>)
     ELSE IF Truthy(body.cuddleBuddy) /\ body.cuddleBuddy.s \notin validCuddleBuddies
       THEN Reply("begin", u, body, 400, "INVALID_CUDDLE_BUDDY", <<>>)
     ELSE \E recentSessions \in RecentSessions(u) :
       LET existing == ExistingActiveSession(recentSessions)
       IN IF existing # <<>>
            THEN Reply("begin", u, body, 409, "ACTIVE_SESSION_EXISTS",
                       <<ConflictPayload(sessions[existing[1]])>>)
          ELSE /\ inflight' = [inflight EXCEPT ![slot] =
                                 [op |-> "begin", pc |-> "save", user |-> u,
                                  target |-> "", local |-> <<body>>]]
               /\ UNCHANGED <<sessions, bedrooms, nextId, now, req, resp, pre,
                              arrivals, users>>

\* new SleepData({...}).save() and the response of POST /gotobed.
BeginSave(slot) ==
  LET r == inflight[slot]
      body == r.local[1]
  IN /\ r.op = "begin" /\ r.pc = "save"
     /\ IF CreateConflict(r.user)
          THEN /\ Respond(slot, "begin", body, 500, "SERVER_ERROR", <<>>)
               /\ UNCHANGED <<sessions, bedrooms, nextId, arrivals, users>>
        ELSE /\ Len(sessions) < MaxSessions
             /\ sessions' = Append(sessions, NewSleepSession(r.user, body))
             /\ nextId' = nextId + 1
             /\ arrivals' = Append(arrivals, <<>>)
             /\ Respond(slot, "begin", body, 201, "", <<NewSleepSession(r.user, body)>>)
             /\ UNCHANGED <<bedrooms, users>>

\* POST /gotobed/wakeup up to the result of its find: an error, NotFound, or
\* on to the save with the session document that was read.
WakeUpResolve(slot, u, body) ==
  /\ now < MaxTime
  /\ inflight[slot].op = "idle"
  /\ IF MissingSleepQuality(body.sleepQuality)
       THEN Reply("wakeup", u, body, 400, "SLEEP_QUALITY_REQUIRED", <<>>)
     ELSE IF BadSleepQuality(body.sleepQuality)
       THEN Reply("wakeup", u, body, 400, "SLEEP_QUALITY_RANGE", <<>>)
     ELSE IF BadDate(body.awakenAt)
       THEN Reply("wakeup", u, body, 400, "INVALID_AWAKEN_AT", <<>>)
     ELSE IF BadDate(body.backToBedAt)
       THEN Reply("wakeup", u, body, 400, "INVALID_BACK_TO_BED_AT", <<>>)
     ELSE \E recentSessions \in RecentSessions(u) :
       LET active == ActiveSleepSession(recentSessions)
       IN IF active = <<>>
            THEN Reply("wakeup", u, body, 404, "NO_ACTIVE_SESSION", <<>>)
          ELSE /\ inflight' = [inflight EXCEPT ![slot] =
                                 [op |-> "wakeup", pc |-> "save", user |-> u,
                                  target |-> "",
                                  local |-> <<body, sessions[active[1]]>>]]
               /\ UNCHANGED <<sessions, bedrooms, nextId, now, req, resp, pre,
                              arrivals, users>>

\* What save() writes after wakeUps.push(wakeUpEvent): the pushed element,
\* appended to the array as it is stored.
SaveAppend(stored, doc, wakeUpEvent) ==
  [stored EXCEPT !.wakeUps = Push(@, wakeUpEvent)]

\* What save() writes when it writes the document back as a whole: the
\* document that was read, with the pushed element.
SaveWholeDocument(stored, doc, wakeUpEvent) ==
  [doc EXCEPT !.wakeUps = Push(@, wakeUpEvent)]

\* The ways the persistence layer may write the save.
Saves == {"append", "whole document"}

\* The build of the wake-up, the consistency check, the push, the save and
\* the response of POST /gotobed/wakeup.
WakeUpSave(slot, save) ==
  LET r == inflight[slot]
      body == r.local[1]
      doc == r.local[2]
  IN /\ r.op = "wakeup" /\ r.pc = "save"
     /\ IF Inconsistent(WakeUpEvent(body))
          THEN /\ Respond(slot, "wakeup", body, 400, "BACK_TO_BED_WHEN_FINISHED", <<>>)
               /\ UNCHANGED <<sessions, bedrooms, nextId, arrivals, users>>
        ELSE LET wakeUpEvent == WithDefaultBackToBed(WakeUpEvent(body))
                 updated == [doc EXCEPT !.wakeUps = Push(@, wakeUpEvent)]
             IN \E i \in 1..Len(sessions) :
                  /\ sessions[i].id = doc.id
                  /\ Len(sessions[i].wakeUps) < MaxWakeUps
                  /\ sessions' =
                       [sessions EXCEPT ![i] =
                          IF save = "append"
                            THEN SaveAppend(sessions[i], doc, wakeUpEvent)
                          ELSE SaveWholeDocument(sessions[i], doc, wakeUpEvent)]
                  /\ arrivals' = [arrivals EXCEPT ![doc.id] = Append(@, wakeUpEvent)]
                  /\ Respond(slot, "wakeup", body, 200, "",
                             <<[session |-> updated,
                                wakeUpCount |-> Len(updated.wakeUps),
                                sessionCompleted |-> wakeUpEvent.finishedSleeping]>>)
                  /\ UNCHANGED <<bedrooms, nextId, users>>

RaceNext ==
  \/ \E slot \in Slots, u \in Users, body \in FewBeginBodies :
       BeginResolve(slot, u, body)
  \/ \E slot \in Slots : BeginSave(slot)
  \/ \E slot \in Slots, u \in Users, body \in FewWakeUpBodies :
       WakeUpResolve(slot, u, body)
  \/ \E slot \in Slots, save \in Saves : WakeUpSave(slot, save)

RaceSpec == Init /\ [][RaceNext]_vars

\* The same requests on a persistence layer that writes documents back whole.
WholeDocumentNext ==
  \/ \E slot \in Slots, u \in Users, body \in FewBeginBodies :
       BeginResolve(slot, u, body)
  \/ \E slot \in Slots : BeginSave(slot)
  \/ \E slot \in Slots, u \in Users, body \in FewWakeUpBodies :
       WakeUpResolve(slot, u, body)
  \/ \E slot \in Slots : WakeUpSave(slot, "whole document")

WholeDocumentSpec == Init /\ [][WholeDocumentNext]_vars

\* The filter {'wakeUps.finishedSleeping': {$ne: true}} of the legacy
\* controller: no element of wakeUps has finishedSleeping = true.
LegacyActive(session) ==
  \A k \in 1..Len(session.wakeUps) : session.wakeUps[k].finishedSleeping # TRUE

(***************************************************************************)
(* The claims.  A session is active iff it has no wake-ups or its last     *)
(* wake-up has finishedSleeping = FALSE.                                   *)
(***************************************************************************)
Active(s) == Len(s.wakeUps) = 0 \/ ~Last(s.wakeUps).finishedSleeping

Closed(s) == ~Active(s)

\* The positions in store of user u's active sessions.
ActiveOf(store, u) == {i \in 1..Len(store) : store[i].user = u /\ Active(store[i])}

\* A request body of POST /gotobed with a well-formed bedroom id and a valid
\* or absent cuddleBuddy.
WellFormedBegin(body) ==
  /\ body.bedroom.t = "string"
  /\ body.bedroom.s \in ObjectIds
  /\ \/ body.cuddleBuddy.t = "undefined"
     \/ body.cuddleBuddy.t = "string" /\ body.cuddleBuddy.s \in validCuddleBuddies

\* C1: after any sequence of Begin Session and Record Wake-Up calls handled
\* one at a time, every user has at most one active stored session.
C1_AtMostOneActive ==
  \A u \in Users : Cardinality(ActiveOf(sessions, u)) <= 1

\* A user with a closed session and, begun after it, an active one.
C1_Witness ==
  \E u \in Users : \E i, j \in UserIndexes(u) :
    i < j /\ Closed(sessions[i]) /\ Active(sessions[j])

\* The conflict outcome of the last request: 409 ACTIVE_SESSION_EXISTS, the
\* store unchanged, and a payload naming the caller's one active session.
ConflictOutcome ==
  /\ resp.status = 409
  /\ resp.error = "ACTIVE_SESSION_EXISTS"
  /\ sessions = pre
  /\ \E i \in ActiveOf(pre, req.user) :
       /\ ActiveOf(pre, req.user) = {i}
       /\ Len(resp.data) = 1
       /\ resp.data[1].id = pre[i].id
       /\ resp.data[1].createdAt = pre[i].createdAt
       /\ resp.data[1].wakeUpCount = Len(pre[i].wakeUps)
       /\ resp.data[1].lastWakeUp =
            IF pre[i].wakeUps = <<>> THEN <<>> ELSE <<pre[i].wakeUps[Len(pre[i].wakeUps)]>>

C3_BeginCreatesActive ==
  (req.op = "begin" /\ WellFormedBegin(req.body) /\ ActiveOf(pre, req.user) = {})
    => /\ resp.status = 201
       /\ Len(sessions) = Len(pre) + 1
       /\ SubSeq(sessions, 1, Len(pre)) = pre
       /\ Last(sessions).user = req.user
       /\ Last(sessions).wakeUps = <<>>
       /\ resp.data = <<Last(sessions)>>
       /\ \A recent \in RecentSessions(req.user) :
            ActiveSession(recent) = <<Len(sessions)>>

\* A session begun by a user whose earlier session is closed.
C3_Witness ==
  /\ req.op = "begin"
  /\ resp.status = 201
  /\ \E i \in 1..Len(pre) : pre[i].user = req.user /\ Closed(pre[i])

\* The most recently begun session of user u in store is closed: a wake-up
\* with finishedSleeping = TRUE ended it and no Begin Session succeeded since.
LatestClosed(store, u) ==
  \E i \in 1..Len(store) :
    /\ store[i].user = u
    /\ Closed(store[i])
    /\ \A j \in 1..Len(store) : store[j].user = u => store[j].id <= store[i].id

\* No stored session that was closed before the last request has changed.
ClosedUnchanged ==
  \A i \in 1..Len(pre) : Closed(pre[i]) => sessions[i] = pre[i]

\* An absent value, or one that parses as a timestamp.
AbsentOrTimestamp(v) ==
  \/ v.t = "undefined"
  \/ v.t = "number"
  \/ v.t = "string" /\ v.s = "iso"

\* A body of POST /gotobed/wakeup that passes the checks of its fields one by
\* one: sleepQuality a number in [1,10], timestamps absent or parsable.
ValidFields(body) ==
  /\ body.sleepQuality.t = "number"
  /\ body.sleepQuality.n \in 1..10
  /\ AbsentOrTimestamp(body.awakenAt)
  /\ AbsentOrTimestamp(body.backToBedAt)

\* finishedSleeping = true together with a non-null backToBedAt.
FinishedWithBackToBed(body) ==
  body.finishedSleeping = Bool(TRUE) /\ body.backToBedAt.t \notin {"undefined", "null"}

\* C4 as stated: once a session is closed, every later Record Wake-Up of its
\* user returns 404 and appends nothing until a Begin Session succeeds, and a
\* closed session never changes.
C4_Original ==
  /\ (req.op = "wakeup" /\ LatestClosed(pre, req.user))
       => (resp.status = 404 /\ sessions = pre)
  /\ ClosedUnchanged

\* C4, amended: once a session is closed, every later Record Wake-Up of its
\* user appends nothing until a Begin Session succeeds, and returns 404 when
\* its sleepQuality and timestamps pass the input checks and 400 when they do
\* not; a closed session never changes.
C4_ClosedIsTerminal ==
  /\ (req.op = "wakeup" /\ LatestClosed(pre, req.user))
       => /\ resp.status = IF ValidFields(req.body) THEN 404 ELSE 400
          /\ sessions = pre
  /\ ClosedUnchanged

\* A Record Wake-Up answered 404 because the user's latest session is closed.
C4_Witness ==
  /\ req.op = "wakeup"
  /\ resp.status = 404
  /\ LatestClosed(pre, req.user)

\* C5: a successful Record Wake-Up appends exactly one wake-up at the end of
\* the resolved session and changes nothing else, so that every session's
\* wakeUps are the wake-ups built for it, in arrival order.
C5_AppendOnly ==
  /\ (req.op = "wakeup" /\ resp.status = 200)
       => \E i \in ActiveOf(pre, req.user) :
            /\ Len(sessions) = Len(pre)
            /\ \A j \in 1..Len(pre) : j # i => sessions[j] = pre[j]
            /\ Len(sessions[i].wakeUps) = Len(pre[i].wakeUps) + 1
            /\ SubSeq(sessions[i].wakeUps, 1, Len(pre[i].wakeUps)) = pre[i].wakeUps
            /\ sessions[i] = [pre[i] EXCEPT !.wakeUps = sessions[i].wakeUps]
  /\ \A i \in 1..Len(sessions) : sessions[i].wakeUps = arrivals[sessions[i].id]

\* A second, different wake-up has just been appended to a session.
C5_Witness ==
  /\ req.op = "wakeup"
  /\ resp.status = 200
  /\ \E i \in 1..Len(sessions) :
       /\ Len(pre[i].wakeUps) = 1
       /\ Len(sessions[i].wakeUps) = 2
       /\ sessions[i].wakeUps[1] # sessions[i].wakeUps[2]

\* C6: a Record Wake-Up with valid input of a caller without an active
\* session returns 404 and leaves every stored session unchanged.
C6_NotFoundWithoutActive ==
  (/\ req.op = "wakeup"
   /\ ValidFields(req.body)
   /\ ~FinishedWithBackToBed(req.body)
   /\ ActiveOf(pre, req.user) = {})
    => /\ resp.status = 404
       /\ resp.error = "NO_ACTIVE_SESSION"
       /\ sessions = pre

\* A 404 for a user who never began a session, in a store that holds one.
C6_Witness ==
  /\ req.op = "wakeup"
  /\ resp.status = 404
  /\ pre # <<>>
  /\ \A i \in 1..Len(pre) : pre[i].user # req.user

\* C7: a Record Wake-Up with finishedSleeping = true and a non-null
\* backToBedAt fails with 400 and appends nothing, in every store state.
C7_Original ==
  (req.op = "wakeup" /\ FinishedWithBackToBed(req.body))
    => (resp.status = 400 /\ sessions = pre)

\* The sleepQuality values the claim C8 names as invalid.
OutOfRangeQuality(q) ==
  \/ q \in {Num(0), Num(11), Num(-1)}
  \/ q.t # "number"

\* C8: a Record Wake-Up with sleepQuality 0, 11, -1, missing or non-numeric
\* fails with 400 and appends nothing in every store state; with sleepQuality
\* 1 or 10, the other fields valid and an active session, it succeeds; every
\* stored sleepQuality is in [1,10].
C8_RangeGuard ==
  /\ (req.op = "wakeup" /\ OutOfRangeQuality(req.body.sleepQuality))
       => (resp.status = 400 /\ sessions = pre)
  /\ (/\ req.op = "wakeup"
      /\ req.body.sleepQuality \in {Num(1), Num(10)}
      /\ ValidFields(req.body)
      /\ ~FinishedWithBackToBed(req.body)
      /\ ActiveOf(pre, req.user) # {})
       => /\ resp.status = 200
          /\ Last(resp.data[1].session.wakeUps).sleepQuality = req.body.sleepQuality.n
          /\ resp.data[1].session \in {sessions[i] : i \in 1..Len(sessions)}
  /\ \A i \in 1..Len(sessions) : \A k \in 1..Len(sessions[i].wakeUps) :
       sessions[i].wakeUps[k].sleepQuality \in 1..10

\* A wake-up of quality 10 stored after one of quality 1.
C8_Witness ==
  /\ req.op = "wakeup"
  /\ resp.status = 200
  /\ req.body.sleepQuality = Num(10)
  /\ \E i \in 1..Len(sessions) :
       /\ Len(sessions[i].wakeUps) = 2
       /\ sessions[i].wakeUps[1].sleepQuality = 1
       /\ sessions[i].wakeUps[2].sleepQuality = 10

\* C9: every stored wake-up with finishedSleeping = TRUE has a null
\* backToBedAt.
C9_FinishedHasNoBackToBed ==
  \A i \in 1..Len(sessions) : \A k \in 1..Len(sessions[i].wakeUps) :
    sessions[i].wakeUps[k].finishedSleeping
      => sessions[i].wakeUps[k].backToBedAt = NullDate

\* A session closed by a wake-up that follows one with a back-to-bed time.
C9_Witness ==
  \E i \in 1..Len(sessions) :
    /\ Len(sessions[i].wakeUps) = 2
    /\ sessions[i].wakeUps[1].backToBedAt # NullDate
    /\ sessions[i].wakeUps[2].finishedSleeping

\* The bedroom id b names a bedroom owned by user u.
OwnsBedroom(u, b) == [id |-> b, ownerId |-> u] \in bedrooms

\* C10: a Begin Session whose bedroom id names no bedroom of the caller is
\* rejected and creates nothing, so every stored session references a bedroom
\* of its own user.
C10_Original ==
  /\ (/\ req.op = "begin"
      /\ req.body.bedroom.t = "string"
      /\ ~OwnsBedroom(req.user, req.body.bedroom.s))
       => (resp.status # 201 /\ sessions = pre)
  /\ \A i \in 1..Len(sessions) : OwnsBedroom(sessions[i].user, sessions[i].bedroom)

WakeUpSucceeded == req.op = "wakeup" /\ resp.status = 200

\* The positions at which the last request changed a stored session.
Touched == {i \in 1..Len(pre) : sessions[i] # pre[i]}

\* C12: after a successful Record Wake-Up whose finishedSleeping is false or
\* omitted the session stays active: each resolver loop returns that same
\* session, so GET /active reports it, Begin Session meets the conflict and
\* the next Record Wake-Up appends to it.
C12_StaysActive ==
  (WakeUpSucceeded /\ ~Truthy(req.body.finishedSleeping))
    => /\ Len(sessions) = Len(pre)
       /\ \E i \in 1..Len(sessions) :
            /\ Touched = {i}
            /\ sessions[i].user = req.user
            /\ resp.data[1].session = sessions[i]
            /\ ~resp.data[1].sessionCompleted
            /\ Active(sessions[i])
            /\ \A recent \in RecentSessions(req.user) :
                 /\ ActiveSession(recent) = <<i>>
                 /\ ExistingActiveSession(recent) = <<i>>
                 /\ ActiveSleepSession(recent) = <<i>>

\* A second wake-up without finishedSleeping was recorded on a session.
C12_Witness ==
  /\ WakeUpSucceeded
  /\ req.body.finishedSleeping = Undef
  /\ resp.data[1].wakeUpCount = 2

\* A body of POST /gotobed/wakeup that passes every check of the handler.
ValidWakeUp(body) == ValidFields(body) /\ ~FinishedWithBackToBed(body)

\* The three resolver loops return the same session in the current store, for
\* every user and every order the store may return the newest sessions in.
LoopsAgree ==
  \A u \in Users : \A recent \in RecentSessions(u) :
    /\ ExistingActiveSession(recent) = ActiveSession(recent)
    /\ ActiveSleepSession(recent) = ActiveSession(recent)

\* The outcome of the last request, when its input was valid, tells whether
\* its user had an active session, and names that session.
OutcomeTellsActive ==
  /\ req.op = "active"
       => /\ resp.hasActiveSession <=> ActiveOf(pre, req.user) # {}
          /\ resp.hasActiveSession
               => \E i \in ActiveOf(pre, req.user) : resp.data[1].id = pre[i].id
  /\ (req.op = "begin" /\ WellFormedBegin(req.body))
       => /\ resp.status = 409 <=> ActiveOf(pre, req.user) # {}
          /\ resp.status = 409
               => \E i \in ActiveOf(pre, req.user) : resp.data[1].id = pre[i].id
  /\ (req.op = "wakeup" /\ ValidWakeUp(req.body))
       => /\ resp.status = 200 <=> ActiveOf(pre, req.user) # {}
          /\ resp.status = 200
               => \E i \in ActiveOf(pre, req.user) :
                    resp.data[1].session.id = pre[i].id

\* A valid Record Wake-Up right after a Begin Session that met the conflict
\* succeeds and appends to the session the conflict payload names.
WakeUpAfterConflict ==
  (/\ req.op = "begin" /\ resp.status = 409
   /\ req'.op = "wakeup" /\ req'.user = req.user
   /\ ValidWakeUp(req'.body))
    => /\ resp'.status = 200
       /\ Len(sessions') = Len(sessions)
       /\ \E i \in 1..Len(sessions) :
            /\ sessions[i].id = resp.data[1].id
            /\ sessions'[i].id = resp.data[1].id
            /\ Len(sessions'[i].wakeUps) = Len(sessions[i].wakeUps) + 1
            /\ SubSeq(sessions'[i].wakeUps, 1, Len(sessions[i].wakeUps))
                 = sessions[i].wakeUps
            /\ \A j \in 1..Len(sessions) : j # i => sessions'[j] = sessions[j]

C19_Original ==
  req.op = "wakeup"
    => IF ~(req.body.sleepQuality.t = "number" /\ req.body.sleepQuality.n \in 1..10)
         THEN /\ resp.status = 400
              /\ resp.error \in {"SLEEP_QUALITY_REQUIRED", "SLEEP_QUALITY_RANGE"}
       ELSE IF ~AbsentOrTimestamp(req.body.awakenAt)
         THEN resp.status = 400 /\ resp.error = "INVALID_AWAKEN_AT"
       ELSE IF ~AbsentOrTimestamp(req.body.backToBedAt)
         THEN resp.status = 400 /\ resp.error = "INVALID_BACK_TO_BED_AT"
       ELSE IF FinishedWithBackToBed(req.body)
         THEN resp.status = 400 /\ resp.error = "BACK_TO_BED_WHEN_FINISHED"
       ELSE resp.status \in {200, 404}

\* A field of a request body that the caller supplied.
Supplied(v) == v.t \notin {"undefined", "null"}

ByNonOwner ==
  /\ req.op \in {"update", "delete"}
  /\ req.body.id.t = "objectid"
  /\ \E i \in 1..Len(pre) : pre[i].id = req.body.id.n /\ pre[i].user # req.user

\* C14: a PUT or DELETE /sleep-data/:id by a user who does not own the
\* session is rejected with 403 and leaves every session as it was.
C14_NonOwnerRejected ==
  ByNonOwner => (resp.status = 403 /\ sessions = pre)

\* A non-owner sent an acceptable update, and one the right password, for a
\* session that holds a wake-up.
C14_Witness ==
  /\ ByNonOwner
  /\ \/ req.op = "delete" /\ req.body.body.password = Str("pw-user")
     \/ req.op = "update" /\ req.body.body.wakeUps = Array(<<>>)
  /\ \E i \in 1..Len(pre) : pre[i].id = req.body.id.n /\ Len(pre[i].wakeUps) > 0

\* C15: when DELETE /auth/users/:id reports success for a user, no bedroom
\* and no sleep session of that user is stored, also when that user's own
\* requests run between the three deletion steps.
C15_Original ==
  (resp.op = "deleteUser" /\ resp.status = 200)
    => /\ \A b \in bedrooms : b.ownerId # resp.data[1].userId
       /\ \A i \in 1..Len(sessions) : sessions[i].user # resp.data[1].userId

\* C16: every user who owns a bedroom still owns one after any DELETE
\* /bedrooms/:id requests of that user, also when their count checks and
\* deletions interleave.
C16_Original ==
  \A u \in Users : \E b \in bedrooms : b.ownerId = u

\* The last request ran a resolver loop: a GET /active, or a POST /gotobed or
\* POST /gotobed/wakeup that passed its input checks.
Resolved ==
  \/ req.op = "active"
  \/ req.op = "begin" /\ WellFormedBegin(req.body)
  \/ req.op = "wakeup" /\ ValidWakeUp(req.body)

\* What the resolver of the last request returned: the id of a session, in a
\* set, or the empty set.
Returned ==
  IF req.op = "active"
    THEN IF resp.hasActiveSession THEN {resp.data[1].id} ELSE {}
  ELSE IF req.op = "begin"
    THEN IF resp.status = 409 THEN {resp.data[1].id} ELSE {}
  ELSE IF resp.status = 200 THEN {resp.data[1].session.id} ELSE {}

\* The positions in store of user u's sessions.
Owned(store, u) == {i \in 1..Len(store) : store[i].user = u}

\* The sets of positions the query for user u's five newest sessions may
\* cover in store.
Windows(store, u) ==
  {W \in SUBSET Owned(store, u) :
     /\ Cardinality(W) = IF Cardinality(Owned(store, u)) < 5
                           THEN Cardinality(Owned(store, u)) ELSE 5
     /\ \A i \in W : \A j \in Owned(store, u) \ W :
          store[i].createdAt >= store[j].createdAt}

\* Among the positions W, those of the newest-created active sessions.
NewestActive(store, W) ==
  {i \in W : /\ Active(store[i])
             /\ \A j \in W : Active(store[j])
                  => store[j].createdAt <= store[i].createdAt}

\* The resolver returned the newest-created active session of a window of the
\* user's five newest sessions, or nothing when the window holds none.
ResolvedInWindow ==
  Resolved
    => \E W \in Windows(pre, req.user) :
         IF NewestActive(pre, W) = {} THEN Returned = {}
         ELSE \E i \in NewestActive(pre, W) : Returned = {pre[i].id}

\* C17 as stated: on any store contents the resolver returns the first of
\* the user's (at most 5) newest sessions, by createdAt descending, that has
\* no wake-ups or whose last wake-up has finishedSleeping = false, nothing
\* if there is none; and when several of the user's sessions are open it
\* returns the newest-created of them.
C17_Original ==
  /\ ResolvedInWindow
  /\ (Resolved /\ Cardinality(ActiveOf(pre, req.user)) > 1)
       => \E i \in NewestActive(pre, Owned(pre, req.user)) : Returned = {pre[i].id}

\* C17 within the window: the same, the newest-created open session being
\* returned when several of the user's five newest sessions are open; an open
\* session older than these five is not returned.
C17_ResolverInWindow ==
  Resolved
    => /\ ResolvedInWindow
       /\ \A W \in Windows(pre, req.user) :
            Cardinality({i \in W : Active(pre[i])}) > 1
              => \E i \in NewestActive(pre, W) : Returned = {pre[i].id}
       /\ \A id \in Returned : \E W \in Windows(pre, req.user) :
            \E i \in W : pre[i].id = id

\* The resolver passed over a newer, closed session and returned a session
\* reopened after a finished wake-up, an older session being open as well.
C17_Witness ==
  /\ Resolved
  /\ Cardinality(Owned(pre, req.user)) > 5
  /\ \E i \in ActiveOf(pre, req.user) : \E j \in ActiveOf(pre, req.user) :
       \E k \in Owned(pre, req.user) :
         /\ Returned = {pre[i].id}
         /\ Len(pre[i].wakeUps) = 2
         /\ pre[j].createdAt < pre[i].createdAt
         /\ Closed(pre[k])
         /\ pre[k].createdAt > pre[i].createdAt

\* The resolver loops on the whole history of user u return what they return
\* on the five newest sessions.
WindowIsEnough(u) ==
  \A all \in SortDesc(UserIndexes(u)) : \A recent \in RecentSessions(u) :
    /\ ExistingActiveSession(recent) = ExistingActiveSession(all)
    /\ ActiveSleepSession(recent) = ActiveSleepSession(all)
    /\ ActiveSession(recent) = ActiveSession(all)

\* C18: after Begin Session and Record Wake-Up calls handled one at a time,
\* an active session is its user's most recently created session, so the
\* scan of the 5 newest sessions returns what a scan of the user's whole
\* history returns.
C18_ActiveIsNewest ==
  \A u \in Users :
    /\ \A i \in ActiveOf(sessions, u) : \A j \in Owned(sessions, u) :
         j # i => sessions[j].createdAt < sessions[i].createdAt
    /\ WindowIsEnough(u)

\* A user with more than five sessions has an active one that holds a
\* wake-up.
C18_Witness ==
  \E u \in Users :
    /\ Cardinality(Owned(sessions, u)) > 5
    /\ \E i \in ActiveOf(sessions, u) : Len(sessions[i].wakeUps) > 0

\* A POST /gotobed that had read 'no active session' leaves its slot in this
\* step.
BeginSaved(slot) ==
  /\ inflight[slot].op = "begin"
  /\ inflight[slot].pc = "save"
  /\ inflight'[slot].op = "idle"

\* C21: the check and the create of Begin Session are not atomic: a request
\* that has read 'no active session' creates its session and succeeds even
\* when another request of the same user has created one since, so two racing
\* requests leave the user with two active sessions.
C21_CheckThenCreate ==
  [][\A slot \in Slots :
       BeginSaved(slot)
         => /\ resp'.status = 201
            /\ Len(sessions') = Len(sessions) + 1
            /\ SubSeq(sessions', 1, Len(sessions)) = sessions
            /\ Last(sessions').user = inflight[slot].user
            /\ Active(Last(sessions'))]_vars

\* Two Begin Session requests of one user both succeeded and the user has two
\* active sessions.
C21_Witness ==
  /\ req.op = "begin"
  /\ resp.status = 201
  /\ Cardinality(ActiveOf(sessions, req.user)) = 2
  /\ \A i \in ActiveOf(sessions, req.user) : sessions[i].wakeUps = <<>>

\* A POST /gotobed/wakeup that had resolved a session saves it in this step.
WakeUpSaved(slot) ==
  /\ inflight[slot].op = "wakeup"
  /\ inflight[slot].pc = "save"
  /\ inflight'[slot].op = "idle"
  /\ resp'.status = 200

\* The position in the store of the session a request has resolved.
StoredAt(store, doc) == CHOOSE i \in 1..Len(store) : store[i].id = doc.id

\* C22: when the save writes back the whole document read at resolution, a
\* Record Wake-Up reports success and leaves in the store exactly the wake-ups
\* it had read followed by its own: of two requests that resolved the same
\* session, the wake-up of the one that saved first is lost.
C22_LastWriterWins ==
  [][\A slot \in Slots :
       WakeUpSaved(slot)
         => LET doc == inflight[slot].local[2]
                i == StoredAt(sessions, doc)
            IN /\ resp'.data[1].wakeUpCount = Len(doc.wakeUps) + 1
               /\ sessions'[i].wakeUps =
                    Append(doc.wakeUps, Last(arrivals'[doc.id]))
               /\ (sessions[i].wakeUps # doc.wakeUps
                     => Len(sessions'[i].wakeUps) < Len(arrivals'[doc.id]))]_vars

\* Two wake-ups of one session were both answered with success and the
\* stored session holds only the second.
C22_Witness ==
  /\ req.op = "wakeup"
  /\ resp.status = 200
  /\ \E i \in 1..Len(sessions) :
       /\ sessions[i].user = req.user
       /\ Len(arrivals[sessions[i].id]) = 2
       /\ sessions[i].wakeUps = <<arrivals[sessions[i].id][2]>>
       /\ resp.data[1].wakeUpCount = 1

\* C23 as stated: under any interleaving of concurrent Record Wake-Up
\* requests, a session whose last wake-up has finishedSleeping = true never
\* changes again.
C23_Original ==
  [][\A i \in 1..Len(sessions) :
       Closed(sessions[i]) => sessions'[i] = sessions[i]]_vars

\* C24 as stated: a user has at most one active session in every state
\* reachable through Begin Session, Record Wake-Up, PUT /sleep-data/:id and
\* DELETE /sleep-data/:id executed one after the other.
C24_Original == \A u \in Users : Cardinality(ActiveOf(sessions, u)) <= 1

\* The session stored before the step at position i is stored after it at
\* position j.
SameSession(i, j) == sessions'[j].id = sessions[i].id

\* C25 as stated: the createdAt of a session is never changed by a later
\* operation.
C25_Original ==
  [][\A i \in 1..Len(sessions), j \in 1..Len(sessions') :
       SameSession(i, j) => sessions'[j].createdAt = sessions[i].createdAt]_vars

\* C26: the user of a session is the authenticated caller of the Begin
\* Session that created it and no later operation changes it; a 'user' in the
\* body of PUT /sleep-data/:id is discarded.
C26_OwnerFixed ==
  [][/\ \A i \in 1..Len(sessions), j \in 1..Len(sessions') :
          SameSession(i, j) => sessions'[j].user = sessions[i].user
     /\ \A j \in 1..Len(sessions') :
          (\A i \in 1..Len(sessions) : ~SameSession(i, j))
            => /\ req'.op = "begin"
               /\ sessions'[j].user = req'.user]_vars

\* A PUT whose body names another user has updated a session, which is still
\* the caller's.
C26_Witness ==
  /\ req.op = "update"
  /\ resp.status = 200
  /\ req.body.body.user = Str("u2")
  /\ req.user = "u1"
  /\ resp.data[1].user = "u1"
  /\ resp.data[1].cuddleBuddy = "pet"
  /\ \E i \in 1..Len(sessions) : sessions[i] = resp.data[1]

\* The step is a successful PUT /sleep-data/:id of the session stored at
\* position i, with a createdAt in its body.
UpdatesCreatedAt(i) ==
  /\ req'.op = "update"
  /\ resp'.status = 200
  /\ i \in FindById(req'.body.id)
  /\ req'.body.body.createdAt # Undef

\* C25, amended: the createdAt of a session is the time of the Begin Session
\* that created it until a PUT /sleep-data/:id with a createdAt in its body
\* replaces it by that date; no other operation changes it.
C25_CreatedAtByUpdateOnly ==
  [][/\ \A i \in 1..Len(sessions), j \in 1..Len(sessions') :
          SameSession(i, j)
            => sessions'[j].createdAt =
                 IF UpdatesCreatedAt(i) THEN DateTime(req'.body.body.createdAt)
                 ELSE sessions[i].createdAt
     /\ \A j \in 1..Len(sessions') :
          (\A i \in 1..Len(sessions) : ~SameSession(i, j))
            => sessions'[j].createdAt = now]_vars

\* A PUT has moved the createdAt of a session to the date of its body.
C25_Witness ==
  /\ req.op = "update"
  /\ resp.status = 200
  /\ req.body.body.createdAt = Iso(1)
  /\ resp.data[1].createdAt = 1
  /\ \E i \in 1..Len(pre) :
       /\ pre[i].id = resp.data[1].id
       /\ pre[i].createdAt > 1
       /\ pre[i].wakeUps # <<>>

\* C27 as stated: in every stored session awakenAt is non-decreasing along
\* wakeUps, whatever Record Wake-Up calls were made.
C27_Original ==
  \A i \in 1..Len(sessions) :
    \A k \in 1..(Len(sessions[i].wakeUps) - 1) :
      sessions[i].wakeUps[k].awakenAt <= sessions[i].wakeUps[k + 1].awakenAt

\* The sessions of user u in store, in the order of the store.
Mine(store, u) == SelectSeq(store, LAMBDA s : s.user = u)

\* The sessions of the other users in store, in the order of the store.
NotMine(store, u) == SelectSeq(store, LAMBDA s : s.user # u)

\* The outcome of the last request when the caller's own sessions own hold no
\* active session in the window.
OutcomeWithoutActive(own) ==
  /\ Returned = {}
  /\ IF req.op = "begin"
       THEN /\ resp.status = 201
            /\ resp.data[1].user = req.user
            /\ resp.data[1].wakeUps = <<>>
            /\ Mine(sessions, req.user) = Append(own, resp.data[1])
     ELSE /\ Mine(sessions, req.user) = own
          /\ req.op = "wakeup" => resp.status = 404

\* The outcome of the last request when it resolved the i-th of the caller's
\* own sessions own.
OutcomeWithActive(own, i) ==
  /\ Returned = {own[i].id}
  /\ IF req.op = "wakeup"
       THEN /\ resp.status = 200
            /\ resp.data[1].session =
                 [own[i] EXCEPT !.wakeUps =
                    Append(@, Last(resp.data[1].session.wakeUps))]
            /\ Mine(sessions, req.user) =
                 [own EXCEPT ![i] = resp.data[1].session]
     ELSE /\ Mine(sessions, req.user) = own
          /\ req.op = "begin"
               => resp.status = 409 /\ resp.data[1] = ConflictPayload(own[i])

\* C28: Begin Session, Record Wake-Up and Query Active of a user leave the
\* sessions of the other users as they are and return none of them, and what
\* they answer and store for the caller is decided by the caller's own
\* sessions: it is the outcome of the request on the store without the other
\* users' sessions.
C28_OwnSessionsOnly ==
  Resolved
    => LET own == Mine(pre, req.user)
       IN /\ NotMine(sessions, req.user) = NotMine(pre, req.user)
          /\ \E W \in Windows(own, req.user) :
               IF NewestActive(own, W) = {} THEN OutcomeWithoutActive(own)
               ELSE \E i \in NewestActive(own, W) : OutcomeWithActive(own, i)

\* A user began a session while another user's session was active.
C28_Witness ==
  /\ req.op = "begin"
  /\ resp.status = 201
  /\ \E v \in Users \ {req.user} : ActiveOf(pre, v) # {}
  /\ Mine(pre, req.user) # <<>>

\* C29: in every state reached by Begin Session and Record Wake-Up calls made
\* one after the other, only the last wake-up of a session can have
\* finishedSleeping = true, so the legacy filter and the last-element rule
\* call the same sessions active.
C29_FinishedOnlyLast ==
  \A i \in 1..Len(sessions) :
    /\ \A k \in 1..(Len(sessions[i].wakeUps) - 1) :
         ~sessions[i].wakeUps[k].finishedSleeping
    /\ LegacyActive(sessions[i]) <=> Active(sessions[i])

\* A session was closed by its second wake-up, after an unfinished one, and
\* a new session was begun after it.
C29_Witness ==
  \E i, j \in 1..Len(sessions) :
    /\ Len(sessions[i].wakeUps) = 2
    /\ Closed(sessions[i])
    /\ ~LegacyActive(sessions[i])
    /\ sessions[j].user = sessions[i].user
    /\ LegacyActive(sessions[j])

\* The loop of POST /gotobed finds no active session of user u, whatever the
\* order of the query's result.
CanBegin(u) ==
  \A recent \in RecentSessions(u) : ExistingActiveSession(recent) = <<>>

\* The loop of POST /gotobed/wakeup finds an active session of user u,
\* whatever the order of the query's result.
CanClose(u) ==
  \A recent \in RecentSessions(u) : ActiveSleepSession(recent) # <<>>

\* The step is a valid Begin Session of user u.
BeginStep(u) ==
  /\ req'.op = "begin"
  /\ req'.user = u
  /\ WellFormedBegin(req'.body)

\* The step is a valid Record Wake-Up of user u with finishedSleeping = true.
FinishStep(u) ==
  /\ req'.op = "wakeup"
  /\ req'.user = u
  /\ ValidWakeUp(req'.body)
  /\ Truthy(req'.body.finishedSleeping)

\* C30: in sequential operation a user is never blocked for good: in every
\* reachable state a valid Begin Session either succeeds at once, or the
\* user has an active session that one valid Record Wake-Up with
\* finishedSleeping = true closes with success, after which a valid Begin
\* Session succeeds.
C30_NeverBlocked ==
  /\ [](\A u \in Users : CanBegin(u) \/ CanClose(u))
  /\ [][\A u \in Users :
          /\ (BeginStep(u) /\ CanBegin(u))
               => /\ resp'.status = 201
                  /\ Len(sessions') = Len(sessions) + 1
          /\ (FinishStep(u) /\ CanClose(u))
               => /\ resp'.status = 200
                  /\ CanBegin(u)']_vars

\* A user began a session with success right after a finished wake-up had
\* closed the one that blocked it.
C30_Witness ==
  /\ req.op = "begin"
  /\ resp.status = 201
  /\ \E i \in 1..Len(pre) :
       /\ pre[i].user = req.user
       /\ Len(pre[i].wakeUps) = 2
       /\ Closed(pre[i])
       /\ Last(pre[i].wakeUps).awakenAt = now - 2

====
